---- MODULE Spec2Model ----
(***************************************************************************)
(* Decomposition of a table with nested JSON columns into relational       *)
(* tables: snowpark_main_handler and its closures flatten_array,           *)
(* expand_object_subfields and model_nested_JSON_objects.                  *)
(*                                                                         *)
(* A column name is a sequence of name pieces, so that the names the       *)
(* program builds by concatenation (F_SHA256, F__key, prefix+path+suffix)  *)
(* and the substring tests it makes on them are computed, not assumed.     *)
(* A document value is a record tagged with its runtime type.              *)
(***************************************************************************)
EXTENDS Integers, Sequences, FiniteSets, TLC

VARIABLES
    globals,           \* the module's global namespace: name -> table
    schema,            \* the destination schema: table name -> table
    processed_fields,  \* the handler's set of processed field names
    stack,             \* call stack of model_nested_JSON_objects
    status,            \* "idle" | "running" | "returned" | "failed"
    error,             \* the exception that ended the run, or "none"
    args,              \* arguments of the running (or last) invocation
    results,           \* the mapping the last invocation returned
    invocations,       \* number of invocations made in this process
    last_op,           \* the last field handled by the loop: before and after
    hist               \* what the current invocation has done so far

vars == <<globals, schema, processed_fields, stack, status, error, args,
          results, invocations, last_op, hist>>

----------------------------------------------------------------------------
(* Bounds of the model *)

MaxInvocations == 2
MaxDup == 2
MaxCap == 2

(* Program constants *)

detect_dtype_from_first == 50
default_max_recursive_calls == 100

----------------------------------------------------------------------------
(* Sequences and maps *)

Range(s) == {s[i] : i \in DOMAIN s}

\* An operator's argument is evaluated each time the body mentions it; the
\* operators on tables bind theirs once, as the element of a singleton set.
Only(S) == CHOOSE x \in S : TRUE

\* the elements of S in some order
SetToSeq(S) ==
    Only({CHOOSE f \in [1..Cardinality(T) -> T] : Range(f) = T : T \in {S}})

RECURSIVE Concat(_)
Concat(ss) ==
    Only({IF s = <<>> THEN <<>> ELSE Head(s) \o Concat(Tail(s)) : s \in {ss}})

EmptyMap == <<>>

Put(m, k, v) == [x \in (DOMAIN m) \cup {k} |-> IF x = k THEN v ELSE m[x]]

----------------------------------------------------------------------------
(* Names *)

ENTRY == <<"ENTRY">>

\* the substrings of interest that a name piece contains
PieceContains(piece, marker) ==
    CASE piece = "_SHA256" -> marker = "SHA256"
      [] piece = "INGESTION_CTRL" -> marker = "INGESTION_CTRL"
      [] piece = "INTERNAL_RESULT_" -> marker \in {"INTERNAL_RESULT", "INTERNAL_RESULT_"}
      [] OTHER -> FALSE

\* python: marker in name
NameContains(name, marker) ==
    \E i \in 1..Len(name) : PieceContains(name[i], marker)

\* f"{cur_field}_SHA256"
HashFieldName(field) == field \o <<"_SHA256">>

\* f'{obj_field}__{key}'
SubfieldName(obj_field, key) == obj_field \o <<"__", key>>

\* f'INTERNAL_RESULT_{output_table_prefix}{parent_path}{output_table_suffix}'
InternalResultName(prefix, parent_path, suffix) ==
    <<"INTERNAL_RESULT_">> \o prefix \o parent_path \o suffix

\* k.replace('INTERNAL_RESULT_', '')
StripInternalResult(k) == SelectSeq(k, LAMBDA p : p # "INTERNAL_RESULT_")

DROPPED_COLS == {<<"SEQ">>, <<"KEY">>, <<"PATH">>, <<"INDEX">>, <<"THIS">>}

FLATTEN_COLS == DROPPED_COLS \cup {<<"VALUE">>}

----------------------------------------------------------------------------
(* Values: k is the runtime type, s a scalar's text, e an array's elements, *)
(* o an object's key/value pairs, d the value a digest was computed from.   *)

NullV == [k |-> "NULL", s |-> "", e |-> <<>>, o |-> {}, d |-> <<>>]
Str(t) == [k |-> "VARCHAR", s |-> t, e |-> <<>>, o |-> {}, d |-> <<>>]
Num(i) == [k |-> "INTEGER", s |-> ToString(i), e |-> <<>>, o |-> {}, d |-> <<>>]
Arr(es) == [k |-> "ARRAY", s |-> "", e |-> es, o |-> {}, d |-> <<>>]
Obj(ps) == [k |-> "OBJECT", s |-> "", e |-> <<>>, o |-> ps, d |-> <<>>]
KV(key, val) == [key |-> key, val |-> val]

\* F.typeof
TypeOf(v) == v.k

\* F.sha2(F.col(f).cast(StringType), 256): the digest of a value's text; the
\* digest of NULL is NULL.  Distinct values have distinct digests.
Sha2(v) ==
    IF v.k = "NULL" THEN NullV
    ELSE [k |-> "VARCHAR", s |-> "", e |-> <<>>, o |-> {}, d |-> <<v>>]

\* F.col(obj_field)[key]
GetKey(v, key) ==
    IF v.k = "OBJECT" /\ \E p \in v.o : p.key = key
    THEN (CHOOSE p \in v.o : p.key = key).val
    ELSE NullV

\* the engine's FLATTEN(input => v, mode => mode, outer => TRUE): the rows it
\* yields for one input value
FlattenRows(v, mode) ==
    IF mode = "ARRAY" /\ v.k = "ARRAY" /\ Len(v.e) > 0
    THEN [i \in 1..Len(v.e) |->
            [SEQ |-> Num(1), KEY |-> NullV, PATH |-> Num(i - 1),
             INDEX |-> Num(i - 1), VALUE |-> v.e[i], THIS |-> v]]
    ELSE IF mode = "OBJECT" /\ v.k = "OBJECT" /\ v.o # {}
    THEN SetToSeq({[SEQ |-> Num(1), KEY |-> Str(p.key), PATH |-> Str(p.key),
                    INDEX |-> NullV, VALUE |-> p.val, THIS |-> v] : p \in v.o})
    ELSE <<[SEQ |-> Num(1), KEY |-> NullV, PATH |-> NullV,
            INDEX |-> NullV, VALUE |-> NullV, THIS |-> NullV]>>

----------------------------------------------------------------------------
(* Tables (DataFrames): a set of column names and a sequence of rows *)

Table(cols, rows) == [cols |-> cols, rows |-> rows]

NoTable == Table({}, <<>>)

\* df.select(cols)
Select(df, cols) ==
    Only({Table(cs, [i \in DOMAIN d.rows |-> [c \in cs |-> d.rows[i][c]]])
            : d \in {df}, cs \in {cols}})

\* df.distinct()
Distinct(df) == Only({Table(d.cols, SetToSeq(Range(d.rows))) : d \in {df}})

\* df.drop(*cols)
Drop(df, cols) == Only({Select(d, d.cols \ cols) : d \in {df}})

\* df.with_column(name, sha2(col(field)))
WithHashColumn(df, name, field) ==
    Only({Table(d.cols \cup {name},
                [i \in DOMAIN d.rows |->
                    [c \in d.cols \cup {name} |->
                        IF c = name THEN Sha2(d.rows[i][field]) ELSE d.rows[i][c]]])
            : d \in {df}})

\* df.with_column_renamed(old, new)
WithColumnRenamed(df, old, new) ==
    Only({Table(cols,
                [i \in DOMAIN d.rows |->
                    [c \in cols |-> IF c = new THEN d.rows[i][old] ELSE d.rows[i][c]]])
            : d \in {df}, cols \in {(df.cols \ {old}) \cup {new}}})

\* df.join_table_function('flatten', input=col(field), mode=mode, outer=True)
JoinFlatten(df, field, mode) ==
    LET Joined(r, cols) ==
            Only({[j \in DOMAIN fr |->
                     [c \in cols |-> IF c \in FLATTEN_COLS THEN fr[j][c[1]] ELSE r[c]]]
                    : fr \in {FlattenRows(r[field], mode)}})
    IN Only({Table(cols, Concat([i \in DOMAIN d.rows |-> Joined(d.rows[i], cols)]))
               : d \in {df}, cols \in {df.cols \cup FLATTEN_COLS}})

----------------------------------------------------------------------------
(* Type detection *)

\* df.select(col(cur_field).cast(VariantType)).distinct()
DistinctValues(df, field) == {r[field] : r \in Range(df.rows)}

\* target.limit(n): the samples the engine may hand back
Limit(values, n) ==
    IF Cardinality(values) <= n THEN {values}
    ELSE {S \in SUBSET values : Cardinality(S) = n}

\* .select(typeof).distinct().filter(TYPEOF in (ARRAY, OBJECT)).collect()
ToUnpackTypes(sample) == {TypeOf(v) : v \in sample} \cap {"ARRAY", "OBJECT"}

\* Classify with the ambiguity test off by one
Classify_off_by_one(types) ==
    IF Cardinality(types) > 2 THEN "AMBIGUOUS"
    ELSE IF Cardinality(types) = 1 THEN CHOOSE t \in types : TRUE
    ELSE "SCALAR"

\* the if / elif / else on distinct_to_unpack_type_count, and the match on dtype
Classify(types) ==
    IF Cardinality(types) > 1 THEN "AMBIGUOUS"
    ELSE IF Cardinality(types) = 1 THEN CHOOSE t \in types : TRUE
    ELSE "SCALAR"

----------------------------------------------------------------------------
(* flatten_array *)

\* flatten_array without the distinct() on (hash, array)
flatten_array_every_row(df, array_field) ==
    LET hash_field == HashFieldName(array_field)
        joined == JoinFlatten(Select(df, {hash_field, array_field}), array_field, "ARRAY")
        dropped == Drop(joined, DROPPED_COLS \cup {array_field})
    IN WithColumnRenamed(dropped, <<"VALUE">>, array_field)

flatten_array(df, array_field) ==
    LET hash_field == HashFieldName(array_field)
        unique_arr_instances == Distinct(Select(df, {hash_field, array_field}))
        joined == JoinFlatten(unique_arr_instances, array_field, "ARRAY")
        dropped == Drop(joined, DROPPED_COLS \cup {array_field})
    IN WithColumnRenamed(dropped, <<"VALUE">>, array_field)

----------------------------------------------------------------------------
(* expand_object_subfields *)

\* the keys collected from FLATTEN in OBJECT mode over the distinct values
SubfieldKeys(df, obj_field) ==
    LET flat == JoinFlatten(Distinct(Select(df, {obj_field})), obj_field, "OBJECT")
        keyrows == Distinct(Select(flat, {<<"KEY">>}))
    IN {r[<<"KEY">>].s : r \in {x \in Range(keyrows.rows) : x[<<"KEY">>].k # "NULL"}}

\* zip(*[]) yields nothing to unpack into the two names: ValueError
ExpandRaises(df, obj_field) == SubfieldKeys(df, obj_field) = {}

\* df.with_columns(col_subfield_names, col_subfield_values); a column that
\* already bears one of the names is replaced
expand_object_subfields(df, obj_field) ==
    LET Name(key) == SubfieldName(obj_field, key)
    IN Only({Table(d.cols \cup {Name(key) : key \in keys},
                   [i \in DOMAIN d.rows |->
                       [c \in d.cols \cup {Name(key) : key \in keys} |->
                           IF \E key \in keys : Name(key) = c
                           THEN GetKey(d.rows[i][obj_field],
                                       CHOOSE key \in keys : Name(key) = c)
                           ELSE d.rows[i][c]]])
               : d \in {df}, keys \in {SubfieldKeys(df, obj_field)}})

----------------------------------------------------------------------------
(* model_nested_JSON_objects: one frame per call *)

Frame(df, parent_path, counter) ==
    [df |-> df, parent_path |-> parent_path, counter |-> counter,
     pc |-> "call", todo |-> {}, new_dfs |-> <<>>, terminal |-> FALSE]

Top == stack[Len(stack)]

SetTop(fr) == [stack EXCEPT ![Len(stack)] = fr]

cur_unprocessed_fields(df, processed) ==
    {col \in df.cols :
        /\ ~NameContains(col, "SHA256")
        /\ ~NameContains(col, "INGESTION_CTRL")
        /\ col \notin processed}

\* TerminalCondition without the test of the depth counter
TerminalCondition_no_cap(unprocessed, counter, max) ==
    Cardinality(unprocessed) = 0

TerminalCondition(unprocessed, counter, max) ==
    Cardinality(unprocessed) = 0 \/ counter = max

NoOp == [kind |-> "none", field |-> <<>>, path |-> <<>>, sample |-> {},
         before |-> NoTable, after |-> NoTable, child |-> NoTable]

Op(kind, field, sample, before, after, child) ==
    [kind |-> kind, field |-> field, path |-> Top.parent_path, sample |-> sample,
     before |-> before, after |-> after, child |-> child]

NoHist == [arrays |-> {}, narrays |-> 0, hit_cap |-> FALSE, recorded |-> {},
           called |-> {}, finished |-> {}, persisted |-> {},
           schema0 |-> EmptyMap]

Running == status = "running" /\ stack # <<>>

\* counter += 1; cur_unprocessed_fields; the terminal test is met: return
CallTerminates ==
    /\ Running /\ Top.pc = "call"
    /\ LET counter == Top.counter + 1
           unprocessed == cur_unprocessed_fields(Top.df, processed_fields)
       IN /\ TerminalCondition(unprocessed, counter, args.max)
          /\ stack' = SetTop([Top EXCEPT !.counter = counter, !.pc = "return",
                                         !.terminal = TRUE])
          /\ hist' = [hist EXCEPT
                        !.called = @ \cup {Top.parent_path},
                        !.finished = @ \cup {Top.parent_path},
                        !.hit_cap = @ \/ counter = args.max]
    /\ UNCHANGED <<globals, schema, processed_fields, status, error, args,
                   results, invocations, last_op>>

\* counter += 1; cur_unprocessed_fields; the terminal test is not met
CallProceeds ==
    /\ Running /\ Top.pc = "call"
    /\ LET counter == Top.counter + 1
           unprocessed == cur_unprocessed_fields(Top.df, processed_fields)
       IN /\ ~TerminalCondition(unprocessed, counter, args.max)
          /\ stack' = SetTop([Top EXCEPT !.counter = counter, !.pc = "loop",
                                         !.todo = unprocessed])
          /\ hist' = [hist EXCEPT !.called = @ \cup {Top.parent_path}]
    /\ UNCHANGED <<globals, schema, processed_fields, status, error, args,
                   results, invocations, last_op>>

InLoop == Running /\ Top.pc = "loop"

Samples(cur_field) ==
    Limit(DistinctValues(Top.df, cur_field), detect_dtype_from_first)

\* raise TypeError
FieldAmbiguous ==
    /\ InLoop
    /\ \E cur_field \in Top.todo : \E sample \in Samples(cur_field) :
        /\ Classify(ToUnpackTypes(sample)) = "AMBIGUOUS"
        /\ status' = "failed"
        /\ error' = "TypeError"
        /\ stack' = <<>>
        /\ last_op' = Op("raise", cur_field, sample, Top.df, Top.df, NoTable)
        /\ UNCHANGED <<globals, schema, processed_fields, args, results,
                       invocations, hist>>

\* case 'ARRAY'
FieldArray ==
    /\ InLoop
    /\ \E cur_field \in Top.todo : \E sample \in Samples(cur_field) :
        /\ Classify(ToUnpackTypes(sample)) = "ARRAY"
        /\ LET hash_field == HashFieldName(cur_field)
               hashed == WithHashColumn(Top.df, hash_field, cur_field)
               new_df == flatten_array(hashed, cur_field)
               df == Drop(hashed, {cur_field})
           IN /\ stack' = SetTop([Top EXCEPT
                    !.df = df,
                    !.new_dfs = Append(@, [name |-> cur_field, df |-> new_df]),
                    !.todo = @ \ {cur_field}])
              /\ last_op' = Op("array", cur_field, sample, Top.df, df, new_df)
        /\ hist' = [hist EXCEPT
                      !.arrays = @ \cup {[parent |-> Top.parent_path,
                                          field |-> cur_field]},
                      !.narrays = @ + 1]
        /\ UNCHANGED <<globals, schema, processed_fields, status, error, args,
                       results, invocations>>

\* case 'OBJECT'
FieldObject ==
    /\ InLoop
    /\ \E cur_field \in Top.todo : \E sample \in Samples(cur_field) :
        /\ Classify(ToUnpackTypes(sample)) = "OBJECT"
        /\ ~ExpandRaises(Top.df, cur_field)
        /\ LET df == Drop(expand_object_subfields(Top.df, cur_field), {cur_field})
           IN /\ stack' = SetTop([Top EXCEPT !.df = df, !.todo = @ \ {cur_field}])
              /\ last_op' = Op("object", cur_field, sample, Top.df, df, NoTable)
        /\ processed_fields' = processed_fields \cup {cur_field}
        /\ UNCHANGED <<globals, schema, status, error, args, results,
                       invocations, hist>>

\* case 'OBJECT', no key discovered: the unpacking of zip(*[]) raises
FieldObjectNoKeys ==
    /\ InLoop
    /\ \E cur_field \in Top.todo : \E sample \in Samples(cur_field) :
        /\ Classify(ToUnpackTypes(sample)) = "OBJECT"
        /\ ExpandRaises(Top.df, cur_field)
        /\ status' = "failed"
        /\ error' = "ValueError"
        /\ stack' = <<>>
        /\ last_op' = Op("raise", cur_field, sample, Top.df, Top.df, NoTable)
        /\ UNCHANGED <<globals, schema, processed_fields, args, results,
                       invocations, hist>>

\* else: processed_fields.add(cur_field)
FieldScalar ==
    /\ InLoop
    /\ \E cur_field \in Top.todo : \E sample \in Samples(cur_field) :
        /\ Classify(ToUnpackTypes(sample)) = "SCALAR"
        /\ stack' = SetTop([Top EXCEPT !.todo = @ \ {cur_field}])
        /\ last_op' = Op("scalar", cur_field, sample, Top.df, Top.df, NoTable)
        /\ processed_fields' = processed_fields \cup {cur_field}
        /\ UNCHANGED <<globals, schema, status, error, args, results,
                       invocations, hist>>

\* globals()[...] = df, then the call on the same lineage
RecordAndRecurse ==
    /\ Running /\ Top.pc = "loop" /\ Top.todo = {}
    /\ LET key == InternalResultName(args.prefix, Top.parent_path, args.suffix)
       IN /\ globals' = Put(globals, key, Top.df)
          /\ hist' = [hist EXCEPT !.recorded = @ \cup {key}]
    /\ stack' = Append(SetTop([Top EXCEPT !.pc = "children"]),
                       Frame(Top.df, Top.parent_path, Top.counter))
    /\ UNCHANGED <<schema, processed_fields, status, error, args, results,
                   invocations, last_op>>

\* for name, df in new_dfs.items(): the call on the next child table
RecurseIntoChild ==
    /\ Running /\ Top.pc = "children" /\ Top.new_dfs # <<>>
    /\ LET child == Head(Top.new_dfs)
       IN stack' = Append(SetTop([Top EXCEPT !.new_dfs = Tail(@)]),
                          Frame(child.df, child.name, Top.counter))
    /\ UNCHANGED <<globals, schema, processed_fields, status, error, args,
                   results, invocations, last_op, hist>>

\* the loop over new_dfs is exhausted: the call falls off its end
ChildrenDone ==
    /\ Running /\ Top.pc = "children" /\ Top.new_dfs = <<>>
    /\ stack' = SetTop([Top EXCEPT !.pc = "return"])
    /\ UNCHANGED <<globals, schema, processed_fields, status, error, args,
                   results, invocations, last_op, hist>>

Return ==
    /\ Running /\ Top.pc = "return"
    /\ stack' = SubSeq(stack, 1, Len(stack) - 1)
    /\ UNCHANGED <<globals, schema, processed_fields, status, error, args,
                   results, invocations, last_op, hist>>

----------------------------------------------------------------------------
(* Input relations *)

Row1(c1, v1) == c1 :> v1
Row2(c1, v1, c2, v2) == (c1 :> v1) @@ (c2 :> v2)

ID == <<"ID">>
NAME == <<"NAME">>
ITEMS == <<"ITEMS">>
DOC == <<"DOC">>

XY == Arr(<<Str("x"), Str("y")>>)

\* scalar columns only
FlatTable ==
    Table({ID, NAME}, <<Row2(ID, Str("1"), NAME, Str("x")),
                        Row2(ID, Str("2"), NAME, NullV)>>)

\* an ingestion-control column and nothing else
ControlOnlyTable ==
    Table({<<"INGESTION_CTRL">>}, <<Row1(<<"INGESTION_CTRL">>, Str("1"))>>)

\* n rows holding the same array, one an empty array, one no array
ItemsTable(n) ==
    Table({ID, ITEMS},
          [i \in 1..n |-> Row2(ID, Str(ToString(i)), ITEMS, XY)]
          \o <<Row2(ID, Str("e"), ITEMS, Arr(<<>>)),
               Row2(ID, Str("n"), ITEMS, NullV)>>)

\* an object with keys A and B, B an object again
ObjectTable ==
    Table({DOC},
          <<Row1(DOC, Obj({KV("A", Str("x")), KV("B", Obj({KV("C", Str("y"))}))})),
            Row1(DOC, Obj({KV("A", Str("y"))}))>>)

\* an object without keys
EmptyObjectTable ==
    Table({ID, DOC}, <<Row2(ID, Str("1"), DOC, Obj({}))>>)

\* DOC.A is an array in one row and an object in the other
AmbiguousTable ==
    Table({DOC},
          <<Row1(DOC, Obj({KV("A", XY)})),
            Row1(DOC, Obj({KV("A", Obj({KV("C", Str("x"))}))}))>>)

\* an array whose elements are arrays
NestedArrayTable ==
    Table({ITEMS}, <<Row1(ITEMS, Arr(<<XY, Arr(<<Str("x")>>)>>))>>)

\* an array field named ENTRY
EntryNamedTable ==
    Table({ENTRY}, <<Row1(ENTRY, XY)>>)

\* the array X__T at the root, and the array T inside the elements of X
SameNameTable ==
    Table({<<"X">>, <<"X", "__", "T">>},
          <<Row2(<<"X">>, Arr(<<Obj({KV("T", XY)})>>),
                 <<"X", "__", "T">>, Arr(<<Str("z")>>))>>)

InputTables ==
    {FlatTable, ControlOnlyTable, ObjectTable, EmptyObjectTable, AmbiguousTable,
     NestedArrayTable, EntryNamedTable, SameNameTable}
    \cup {ItemsTable(n) : n \in 1..MaxDup}

Caps == (1..MaxCap) \cup {default_max_recursive_calls}

Affixes == {[prefix |-> <<>>, suffix |-> <<>>],
            [prefix |-> <<"STG_">>, suffix |-> <<"_V2">>]}

----------------------------------------------------------------------------
(* snowpark_main_handler *)

\* the names the module itself binds
ModuleGlobals == <<"snowpark_main_handler">> :> NoTable

NoArgs == [input |-> NoTable, max |-> default_max_recursive_calls,
           prefix |-> <<>>, suffix |-> <<>>]

\* df = session.table(input_relation); processed_fields = set(); the first call
Invoke ==
    /\ status # "running"
    /\ invocations < MaxInvocations
    /\ \E input \in InputTables, max \in Caps, affix \in Affixes :
          /\ args' = [input |-> input, max |-> max,
                      prefix |-> affix.prefix, suffix |-> affix.suffix]
          /\ stack' = <<Frame(input, ENTRY, 0)>>
    /\ status' = "running"
    /\ error' = "none"
    /\ processed_fields' = {}
    /\ results' = EmptyMap
    /\ invocations' = invocations + 1
    /\ last_op' = NoOp
    /\ hist' = [NoHist EXCEPT !.schema0 = schema]
    /\ UNCHANGED <<globals, schema>>

\* results = {...}; save_as_table(mode='overwrite') for each; return results
Finish ==
    /\ status = "running" /\ stack = <<>>
    /\ LET internal == {k \in DOMAIN globals : NameContains(k, "INTERNAL_RESULT")}
           names == {StripInternalResult(k) : k \in internal}
           res == [n \in names |->
                      globals[CHOOSE k \in internal : StripInternalResult(k) = n]]
       IN /\ results' = res
          /\ schema' = [n \in (DOMAIN schema) \cup names |->
                           IF n \in names THEN res[n] ELSE schema[n]]
          /\ hist' = [hist EXCEPT !.persisted = names]
    /\ status' = "returned"
    /\ UNCHANGED <<globals, processed_fields, stack, error, args, invocations,
                   last_op>>

----------------------------------------------------------------------------

Init ==
    /\ globals = ModuleGlobals
    /\ schema = EmptyMap
    /\ processed_fields = {}
    /\ stack = <<>>
    /\ status = "idle"
    /\ error = "none"
    /\ args = NoArgs
    /\ results = EmptyMap
    /\ invocations = 0
    /\ last_op = NoOp
    /\ hist = NoHist

Step ==
    \/ CallTerminates
    \/ CallProceeds
    \/ FieldAmbiguous
    \/ FieldArray
    \/ FieldObject
    \/ FieldObjectNoKeys
    \/ FieldScalar
    \/ RecordAndRecurse
    \/ RecurseIntoChild
    \/ ChildrenDone
    \/ Return
    \/ Finish

Next == Invoke \/ Step

Spec == Init /\ [][Next]_vars

\* One run in a fresh process, executed to its end: the interpreter keeps
\* executing a run that has begun.  The calls of model_nested_JSON_objects
\* read df, counter, max_recursive_calls and processed_fields, none of which
\* an earlier invocation leaves behind.
FirstInvoke == invocations = 0 /\ Invoke

RunNext == FirstInvoke \/ Step

RunSpec == Init /\ [][RunNext]_vars /\ WF_vars(Step)

----------------------------------------------------------------------------
(* Vocabulary of the properties *)

Nested(v) == v.k \in {"ARRAY", "OBJECT"}

Bookkeeping(col) ==
    NameContains(col, "SHA256") \/ NameContains(col, "INGESTION_CTRL")

\* some non-bookkeeping column of df holds an ARRAY or OBJECT value
HasNested(df) ==
    \E c \in df.cols : ~Bookkeeping(c) /\ \E r \in Range(df.rows) : Nested(r[c])

\* the name of the result table of a lineage path
ResultName(path) == args.prefix \o path \o args.suffix

Returned == status = "returned"

\* the run is the first of the process and no call of it met the depth cap
FirstRunNoCap == Returned /\ invocations = 1 /\ ~hist.hit_cap

\* the loop has just handled a field whose sample has these types
Handled(types) ==
    /\ last_op.kind # "none"
    /\ {v.k : v \in last_op.sample} \cap {"ARRAY", "OBJECT"} = types

\* number of rows of df that satisfy P
Count(df, P(_)) == Cardinality({i \in DOMAIN df.rows : P(df.rows[i])})

----------------------------------------------------------------------------
(* C1: a table whose non-bookkeeping columns are all scalar, decomposed    *)
(* with the default depth cap in a fresh process, comes back as exactly    *)
(* one table, under ENTRY, with the columns and rows of the input.         *)
C1_FlatInputGivesEntryTable ==
    (Returned /\ invocations = 1 /\ args.max = default_max_recursive_calls
        /\ ~HasNested(args.input))
    => /\ DOMAIN results = {ResultName(ENTRY)}
       /\ results[ResultName(ENTRY)] = args.input

(* C2: when a run ends without error, the returned names are ENTRY and one *)
(* name per field classified ARRAY, all distinct: 1 + (number of fields    *)
(* classified ARRAY) tables.  Stated for the runs where an array field was *)
(* met, no call was stopped by the depth cap and no earlier run left       *)
(* anything behind.                                                        *)
C2_OneTablePerArrayField ==
    (FirstRunNoCap /\ hist.narrays > 0)
    => /\ DOMAIN results =
            {ResultName(ENTRY)} \cup {ResultName(a.field) : a \in hist.arrays}
       /\ Cardinality(DOMAIN results) = 1 + hist.narrays

(* C3: a call that meets the terminal condition returns with its table     *)
(* recorded under its lineage path.                                        *)
C3_TerminalCallRecordsTable ==
    (Running /\ Top.pc = "return" /\ Top.terminal)
    => LET key == InternalResultName(args.prefix, Top.parent_path, args.suffix)
       IN key \in DOMAIN globals /\ globals[key] = Top.df

(* C4: a field whose sample holds both an ARRAY and an OBJECT value fails   *)
(* the run with TypeError; the field is not expanded, exploded or marked    *)
(* processed, no mapping is returned and the destination schema is left as  *)
(* it was.                                                                  *)
C4_AmbiguousFieldFailsRun ==
    Handled({"ARRAY", "OBJECT"})
    => /\ status = "failed" /\ error = "TypeError"
       /\ last_op.after = last_op.before
       /\ last_op.child = NoTable
       /\ last_op.field \notin processed_fields
       /\ results = EmptyMap
       /\ hist.persisted = {}
       /\ schema = hist.schema0

\* the run fails on an ambiguous field after a table was recorded
C4_Witness ==
    /\ Handled({"ARRAY", "OBJECT"})
    /\ status = "failed"
    /\ hist.recorded # {}

(* C5: handling a field F classified OBJECT succeeds and leaves one column  *)
(* F__k per discovered key k holding F[k], the same number of rows, no      *)
(* column F, and F in the processed set; also when no key is discovered.    *)
C5_ObjectFieldExpands ==
    Handled({"OBJECT"})
    => LET F == last_op.field
           before == last_op.before
           after == last_op.after
           K == UNION {{p.key : p \in r[F].o} : r \in Range(before.rows)}
       IN /\ status # "failed"
          /\ after.cols = (before.cols \cup {SubfieldName(F, k) : k \in K}) \ {F}
          /\ Len(after.rows) = Len(before.rows)
          /\ \A i \in DOMAIN after.rows : \A k \in K :
                after.rows[i][SubfieldName(F, k)] = GetKey(before.rows[i][F], k)
          /\ F \in processed_fields

(* C6: the child table of a field F classified ARRAY has the columns        *)
(* F_SHA256 and F only, and for each distinct array value of F one row per  *)
(* element (one row with a null element for an empty or null array),        *)
(* however many parent rows hold that value.                                *)
C6_ChildTableOneRowPerElement ==
    Handled({"ARRAY"})
    => LET F == last_op.field
           H == HashFieldName(F)
           child == last_op.child
       IN /\ child.cols = {H, F}
          /\ \A v \in DistinctValues(last_op.before, F) :
                LET FromV(r) == r[H] = Sha2(v)
                IN IF v.k = "ARRAY" /\ Len(v.e) > 0
                   THEN /\ Count(child, FromV) = Len(v.e)
                        /\ \A x \in Range(v.e) :
                              LET IsX(r) == FromV(r) /\ r[F] = x
                              IN Count(child, IsX) =
                                     Cardinality({j \in DOMAIN v.e : v.e[j] = x})
                   ELSE v.k \in {"ARRAY", "NULL"}
                        => /\ Count(child, FromV) = 1
                           /\ \A r \in Range(child.rows) : FromV(r) => r[F] = NullV

\* several parent rows hold the same non-empty array, another row an empty
\* array, another none, and the field has been flattened
C6_Witness ==
    /\ Handled({"ARRAY"})
    /\ LET F == last_op.field
           rows == last_op.before.rows
       IN /\ \E i, j \in DOMAIN rows :
                i # j /\ rows[i][F] = rows[j][F] /\ Len(rows[i][F].e) > 1
          /\ \E i \in DOMAIN rows : rows[i][F] = Arr(<<>>)
          /\ \E i \in DOMAIN rows : rows[i][F] = NullV

(* C7: the decomposition terminates, every lineage reaching the terminal    *)
(* condition; the depth counter of the i-th nested call is i and never      *)
(* exceeds max_recursive_calls.                                             *)
Depth(fr) == IF fr.pc = "call" THEN fr.counter + 1 ELSE fr.counter

DepthWithinCap ==
    \A i \in DOMAIN stack : Depth(stack[i]) = i /\ Depth(stack[i]) <= args.max

C7_TerminatesWithinDepthCap ==
    /\ []DepthWithinCap
    /\ (status = "running") ~> (status \in {"returned", "failed"})
    /\ [](Returned => hist.called \subseteq hist.finished)

\* a nested call is stopped by the depth cap alone
C7_Witness ==
    /\ Running /\ Len(stack) >= 2
    /\ Top.terminal /\ Top.counter = args.max
    /\ cur_unprocessed_fields(Top.df, processed_fields) # {}

(* C8: for every field F classified ARRAY in a table T, the tables returned *)
(* for T and for F both carry the column F_SHA256, and every row of F's     *)
(* table has the hash of some row of T's table.                             *)
C8_ChildHashesJoinParent ==
    FirstRunNoCap
    => \A a \in hist.arrays :
          LET H == HashFieldName(a.field)
              pk == ResultName(a.parent)
              ck == ResultName(a.field)
          IN /\ pk \in DOMAIN results /\ ck \in DOMAIN results
             /\ H \in results[pk].cols /\ H \in results[ck].cols
             /\ \A r \in Range(results[ck].rows) :
                   \E q \in Range(results[pk].rows) : q[H] = r[H]

(* C9: when a run ends without error and without meeting the depth cap, no  *)
(* returned table has a non-bookkeeping column holding an ARRAY or OBJECT   *)
(* value.                                                                   *)
C9_NoNestedValueInResults ==
    FirstRunNoCap => \A n \in DOMAIN results : ~HasNested(results[n])

(* C10: the returned mapping and the tables persisted hold only tables      *)
(* recorded during the same invocation.                                     *)
C10_ResultsFromThisInvocationOnly ==
    Returned
    => LET mine == {StripInternalResult(k) : k \in hist.recorded}
       IN DOMAIN results \subseteq mine /\ hist.persisted \subseteq mine

====
